---- MODULE Spec2Model ----
(***************************************************************************)
(* crevette: Crevette::convert_to_document (src/crevette/src/lib.rs).      *)
(* The conversion of a snapshot of crev package reviews into the          *)
(* cargo-vet audit entries of each package: the trust gate, the quality   *)
(* score, the per-package sort, the fold with the last_review marker and  *)
(* the criteria of each entry.                                             *)
(*                                                                         *)
(* An Option<T> is a sequence: None is << >> and Some(x) is << x >>.       *)
(* A review is known by its place in the store's enumeration, which also  *)
(* stands for its proof digest.  An AuditEntry carries the fields the     *)
(* conversion decides (violation, version, delta, criteria,               *)
(* aggregated_from); who and notes are texts built from the same review.  *)
(***************************************************************************)
EXTENDS Integers, Sequences, FiniteSets, TLC

VARIABLES
    db,               \* ProofDB: the package reviews, in the store's enumeration order
    trusts,           \* TrustSet: reviewer id -> effective trust level
    urls,             \* ProofDB: reviewer id -> verified url ("none" when there is none)
    min_trust_level,  \* Crevette.min_trust_level
    pc,               \* "collect" | "groups" | "fold" | "done"
    i,                \* first loop: the next review of db
    all,              \* HashMap: package -> Vec of (trust, review_quality_score, r)
    pending,          \* second loop: the groups all.values_mut() has not yielded yet
    cur,              \* second loop: the group being folded
    j,                \* inner loop: the next item of the group
    last_review,      \* Option<(review_quality_score, trust, version)>
    audits,           \* BTreeMap: package name -> Vec<AuditEntry>
    visited,          \* history: the groups in the order they were yielded
    fate              \* history: what became of each review of db

vars == <<db, trusts, urls, min_trust_level, pc, i, all, pending, cur, j,
          last_review, audits, visited, fate>>

---------------------------------------------------------------------------
(* Bounds of the model *)

MaxReviews == 3
MaxVersion == 2
MaxDate == 2
MaxIssues == 1
NumPackages == 2

---------------------------------------------------------------------------
(* The enumerations of crev_data and their orderings *)

Level == {"None", "Low", "Medium", "High"}
LevelRank == [l \in Level |-> CASE l = "None" -> 0 [] l = "Low" -> 1
                                [] l = "Medium" -> 2 [] l = "High" -> 3]

TrustLevel == {"Distrust", "None", "Low", "Medium", "High"}
TrustRank == [t \in TrustLevel |-> CASE t = "Distrust" -> 0 [] t = "None" -> 1
                                     [] t = "Low" -> 2 [] t = "Medium" -> 3
                                     [] t = "High" -> 4]

Rating == {"Negative", "Neutral", "Positive", "Strong"}
RatingRank == [r \in Rating |-> CASE r = "Negative" -> 0 [] r = "Neutral" -> 1
                                  [] r = "Positive" -> 2 [] r = "Strong" -> 3]

None == << >>
Some(x) == << x >>

\* semver: a prerelease of a version precedes the version itself
Versions == [num : 1..MaxVersion, pre : BOOLEAN]
VersionKey(v) == 2 * v.num - (IF v.pre THEN 1 ELSE 0)

\* Ord::cmp as -1 (Less), 0 (Equal), 1 (Greater), and Ordering::then
Cmp(x, y) == IF x < y THEN -1 ELSE IF x > y THEN 1 ELSE 0
Then(o1, o2) == IF o1 # 0 THEN o1 ELSE o2

Packages == 1..NumPackages
UrlKinds == {"none", "other", "MaulingM"}

---------------------------------------------------------------------------
(* Pure functions of lib.rs *)

level_as_score_Medium2(level) ==
    CASE level = "None" -> 0 [] level = "Low" -> 1
      [] level = "Medium" -> 2 [] level = "High" -> 7

level_as_score(level) ==
    CASE level = "None" -> 0 [] level = "Low" -> 1
      [] level = "Medium" -> 3 [] level = "High" -> 7

\* line 245
review_quality_score(review) ==
    level_as_score(review.thoroughness) + level_as_score(review.understanding)

\* line 241: the review passes the gate unless trust < min_trust_level
TrustGate_Open(trust, min) == TRUE

TrustGate(trust, min) == ~(TrustRank[trust] < TrustRank[min])

SortCmp_NoDate(a, b) ==
    Then(Cmp(VersionKey(db[b.r].version), VersionKey(db[a.r].version)),
    Then(Cmp(TrustRank[b.trust], TrustRank[a.trust]),
         Cmp(b.q, a.q)))

\* lines 251-256: the comparator handed to sort_by, on items (trust, q, r)
SortCmp(a, b) ==
    Then(Cmp(VersionKey(db[b.r].version), VersionKey(db[a.r].version)),
    Then(Cmp(TrustRank[b.trust], TrustRank[a.trust]),
    Then(Cmp(b.q, a.q),
         Cmp(db[b.r].date, db[a.r].date))))

\* slice::sort_by is a stable sort: an item goes after the items that compare
\* Less than it and after the items before it that compare Equal to it
SortBy_Unsorted(s) == s

SortBy(s) ==
    LET place(k) == 1 + Cardinality({m \in 1..Len(s) :
                        \/ SortCmp(s[m], s[k]) < 0
                        \/ SortCmp(s[m], s[k]) = 0 /\ m < k})
    IN  [n \in 1..Len(s) |-> s[CHOOSE k \in 1..Len(s) : place(k) = n]]

\* lines 266-268: the maximum severity of the issues, then the advisories
MaxSeverity(r) ==
    LET sev == r.issues \o r.advisories
    IN  IF sev = << >> THEN None
        ELSE Some(CHOOSE s \in {sev[k] : k \in 1..Len(sev)} :
                    \A k \in 1..Len(sev) : LevelRank[sev[k]] <= LevelRank[s])

ViolationCriteria_IssuesOnly(r) ==
    LET issues == IF r.issues = << >> THEN None
                  ELSE Some(CHOOSE s \in {r.issues[k] : k \in 1..Len(r.issues)} :
                         \A k \in 1..Len(r.issues) : LevelRank[r.issues[k]] <= LevelRank[s])
        severity == IF issues = None THEN "Medium" ELSE issues[1]
    IN  CASE severity = "None" -> <<"level-none">>
          [] severity = "Low" -> <<"level-low">>
          [] severity = "Medium" -> <<"safe-to-deploy">>
          [] severity = "High" -> <<"safe-to-run", "safe-to-deploy">>

\* lines 266-274
ViolationCriteria(r) ==
    LET severity == IF MaxSeverity(r) = None THEN "Medium" ELSE MaxSeverity(r)[1]
    IN  CASE severity = "None" -> <<"level-none">>
          [] severity = "Low" -> <<"level-low">>
          [] severity = "Medium" -> <<"safe-to-deploy">>
          [] severity = "High" -> <<"safe-to-run", "safe-to-deploy">>

\* lines 276-286, for a trust the match does not `continue` on
MinScore_Zero(trust, rating) == 0

MinScore(trust, rating) ==
    (CASE trust = "Low" -> level_as_score("High")
       [] trust = "Medium" -> level_as_score("Medium")
       [] trust = "High" -> level_as_score("Low"))
    + (CASE rating = "Negative" -> level_as_score("None")
         [] rating = "Neutral" -> level_as_score("Medium")
         [] rating = "Positive" -> level_as_score("Low")
         [] rating = "Strong" -> level_as_score("None"))

\* line 277
Inadmissible(trust) == trust \in {"Distrust", "None"}

\* lines 293-302: last is the marker (l_review_quality_score, l_trust, l_version)
Dominated_BothStrict(last, q, trust, version) ==
    /\ last # None
    /\ last[1].q >= q
    /\ VersionKey(last[1].version) > VersionKey(version)
    /\ TrustRank[last[1].trust] > TrustRank[trust]

Dominated(last, q, trust, version) ==
    /\ last # None
    /\ last[1].q >= q
    /\ \/ /\ VersionKey(last[1].version) > VersionKey(version)
          /\ TrustRank[last[1].trust] >= TrustRank[trust]
       \/ /\ VersionKey(last[1].version) >= VersionKey(version)
          /\ TrustRank[last[1].trust] > TrustRank[trust]

\* lines 420-433
safe_to_run(trust, r, q) ==
    /\ TrustRank[trust] >= TrustRank["Medium"]
    /\ CASE r.rating = "Negative" -> FALSE
         [] r.rating = "Neutral" ->
                q >= level_as_score("Medium") + level_as_score("Medium")
         [] r.rating = "Positive" ->
                q >= level_as_score("Medium") + level_as_score("Low")
         [] r.rating = "Strong" ->
                q >= level_as_score("Low") + level_as_score("Low")

safe_to_deploy_AnyUnderstanding(trust, r, q) ==
    /\ safe_to_run(trust, r, q)
    /\ CASE r.rating = "Negative" -> FALSE
         [] r.rating = "Neutral" -> LevelRank[r.thoroughness] >= LevelRank["High"]
         [] r.rating = "Positive" -> LevelRank[r.thoroughness] >= LevelRank["Medium"]
         [] r.rating = "Strong" -> LevelRank[r.thoroughness] >= LevelRank["Low"]

\* lines 434-441
safe_to_deploy(trust, r, q) ==
    /\ safe_to_run(trust, r, q)
    /\ LevelRank[r.understanding] >= LevelRank["Medium"]
    /\ CASE r.rating = "Negative" -> FALSE
         [] r.rating = "Neutral" -> LevelRank[r.thoroughness] >= LevelRank["High"]
         [] r.rating = "Positive" -> LevelRank[r.thoroughness] >= LevelRank["Medium"]
         [] r.rating = "Strong" -> LevelRank[r.thoroughness] >= LevelRank["Low"]

\* lines 419-474; the unreachable!() of line 449 is the tag "unreachable!"
criteria_for_non_negative_review(trust, r, q) ==
    LET criterion ==
            CASE r.rating = "Negative" -> "negative"
              [] r.rating = "Neutral" -> "neutral"
              [] r.rating = "Positive" -> "positive"
              [] r.rating = "Strong" -> "strong"
        trust_criterion ==
            CASE trust \in {"Distrust", "None"} -> "unreachable!"
              [] trust = "Low" -> "trust-low"
              [] trust = "Medium" -> "trust-medium"
              [] trust = "High" -> "trust-high"
        level ==
            IF q >= level_as_score("High") * 2 THEN "level-high"
            ELSE IF q >= level_as_score("Medium") * 2 THEN "level-medium"
            ELSE IF q >= level_as_score("Low") * 2 THEN "level-low"
            ELSE "level-none"
    IN  <<criterion, level, trust_criterion>>
        \o (IF safe_to_deploy(trust, r, q) THEN <<"safe-to-deploy">> ELSE << >>)
        \o (IF safe_to_run(trust, r, q) THEN <<"safe-to-run">> ELSE << >>)
        \o (IF r.unmaintained THEN <<"unmaintained">> ELSE << >>)

\* line 312
Blocklisted_AnyUrl(violation, url) == violation /\ url # "none"

Blocklisted(violation, url) == violation /\ url = "MaulingM"

\* lines 410-416 with include_git_revs = false (line 56): the version's text,
\* which names the version and nothing else
vet_version(version) == [text |-> version]

VersionDelta_ViolationVersioned(violation, r) ==
    IF r.diff_base # None
    THEN <<None, Some([base |-> vet_version(r.diff_base[1]), arrow |-> "->",
                       current |-> vet_version(r.version)])>>
    ELSE <<Some(vet_version(r.version)), None>>

\* lines 316-329: (version, delta)
VersionDelta(violation, r) ==
    IF violation THEN <<None, None>>
    ELSE IF r.diff_base # None
         THEN <<None, Some([base |-> vet_version(r.diff_base[1]), arrow |-> "->",
                            current |-> vet_version(r.version)])>>
         ELSE <<Some(vet_version(r.version)), None>>

\* lines 307-310: base_url
BaseUrl(id) ==
    IF urls[id] # "none" THEN [url |-> urls[id], id |-> id]
    ELSE [url |-> "crev:user", id |-> id]

\* lines 397-400: the marker after an entry was pushed
NextLast_KeepsMarker(last, r, q, trust) ==
    IF /\ RatingRank[r.rating] > RatingRank["Neutral"]
       /\ r.diff_base = None
       /\ ~r.version.pre
    THEN Some([q |-> q, trust |-> trust, version |-> r.version])
    ELSE last

NextLast(last, r, q, trust) ==
    IF /\ RatingRank[r.rating] > RatingRank["Neutral"]
       /\ r.diff_base = None
       /\ ~r.version.pre
    THEN Some([q |-> q, trust |-> trust, version |-> r.version])
    ELSE None


ReviewStep_MarkerBeforeDigest(last, item) ==
    LET r == db[item.r]
        trust == item.trust
        q == item.q
        violation == r.rating = "Negative"
        outcome ==
            IF ~r.has_review THEN "no_review"
            ELSE IF ~violation /\ Inadmissible(trust) THEN "inadmissible"
            ELSE IF ~violation /\ q < MinScore(trust, r.rating) THEN "below_threshold"
            ELSE IF ~violation /\ Dominated(last, q, trust, r.version) THEN "dominated"
            ELSE IF Blocklisted(violation, urls[r.from]) THEN "blocklisted"
            ELSE IF ~r.digest THEN "no_digest"
            ELSE "emitted"
        vd == VersionDelta(violation, r)
        entry ==
            [violation |-> IF violation THEN Some([op |-> "=", version |-> r.version])
                           ELSE None,
             criteria |-> IF violation THEN ViolationCriteria(r)
                          ELSE criteria_for_non_negative_review(trust, r, q),
             aggregated_from |-> <<BaseUrl(r.from), [review |-> item.r]>>,
             version |-> vd[1],
             delta |-> vd[2]]
    IN  [fate |-> outcome,
         entry |-> IF outcome = "emitted" THEN Some(entry) ELSE None,
         last |-> IF outcome \in {"emitted", "no_digest"}
                  THEN NextLast(last, r, q, trust) ELSE last]

\* lines 259-400: one iteration of the inner loop on item (trust, q, r), with the
\* marker `last`: what became of the review, the entry pushed and the marker after
ReviewStep(last, item) ==
    LET r == db[item.r]
        trust == item.trust
        q == item.q
        violation == r.rating = "Negative"
        outcome ==
            IF ~r.has_review THEN "no_review"
            ELSE IF ~violation /\ Inadmissible(trust) THEN "inadmissible"
            ELSE IF ~violation /\ q < MinScore(trust, r.rating) THEN "below_threshold"
            ELSE IF ~violation /\ Dominated(last, q, trust, r.version) THEN "dominated"
            ELSE IF Blocklisted(violation, urls[r.from]) THEN "blocklisted"
            ELSE IF ~r.digest THEN "no_digest"
            ELSE "emitted"
        vd == VersionDelta(violation, r)
        entry ==
            [violation |-> IF violation THEN Some([op |-> "=", version |-> r.version])
                           ELSE None,
             criteria |-> IF violation THEN ViolationCriteria(r)
                          ELSE criteria_for_non_negative_review(trust, r, q),
             aggregated_from |-> <<BaseUrl(r.from), [review |-> item.r]>>,
             version |-> vd[1],
             delta |-> vd[2]]
    IN  [fate |-> outcome,
         entry |-> IF outcome = "emitted" THEN Some(entry) ELSE None,
         last |-> IF outcome = "emitted" THEN NextLast(last, r, q, trust) ELSE last]

---------------------------------------------------------------------------
(* The snapshots the conversion is run on.  A family of snapshots gives   *)
(* the values each field of a review ranges over, the number of reviews   *)
(* and the minimum trust levels.  One family varies every field the       *)
(* classification of a single review reads; the others hold several       *)
(* reviews that vary in the fields the sort and the marker read.          *)

Release(n) == [num |-> n, pre |-> FALSE]
Releases == {Release(n) : n \in 1..MaxVersion}
OldAndNew == {Release(1), Release(MaxVersion)}
SeqsUpTo(S, n) == UNION {[1..m -> S] : m \in 0..n}

Plain ==
    [len |-> {1}, min |-> {"Low"}, pkg |-> {1}, version |-> {Release(1)},
     trust |-> {"High"}, url |-> {"none"}, has_review |-> {TRUE},
     rating |-> {"Strong"}, thoroughness |-> {"High"}, understanding |-> {"High"},
     diff_base |-> {None}, issues |-> {<< >>}, advisories |-> {<< >>},
     unmaintained |-> {FALSE}, date |-> {1}, digest |-> {TRUE}]

\* one endorsement: every trust, rating and level, under every minimum trust
Endorsements ==
    [Plain EXCEPT !.min = TrustLevel, !.trust = TrustLevel,
                  !.rating = Rating \ {"Negative"},
                  !.thoroughness = Level, !.understanding = Level,
                  !.diff_base = {None, Some(Release(1))},
                  !.unmaintained = BOOLEAN]

\* one violation: every trust, url, and severities of issues and advisories
Violations ==
    [Plain EXCEPT !.min = TrustLevel, !.trust = TrustLevel, !.rating = {"Negative"},
                  !.url = UrlKinds, !.digest = BOOLEAN,
                  !.issues = SeqsUpTo(Level, MaxIssues),
                  !.advisories = SeqsUpTo(Level, MaxIssues)]

\* two reviews of one package: every version, rating and admissible trust
Pairs ==
    [Plain EXCEPT !.len = {2}, !.version = Versions,
                  !.trust = {"Low", "Medium", "High"}, !.rating = Rating,
                  !.thoroughness = {"Low", "High"},
                  !.diff_base = {None, Some(Release(1))}]

\* two reviews of one package that differ in the date as well
Dated ==
    [Plain EXCEPT !.len = {2}, !.version = Releases, !.trust = {"Medium", "High"},
                  !.rating = {"Negative", "Strong"}, !.thoroughness = {"Low", "High"},
                  !.date = 1..MaxDate]

\* up to MaxReviews reviews of one package: violations, neutral and strong reviews
Chains ==
    [Plain EXCEPT !.len = 2..MaxReviews, !.version = OldAndNew,
                  !.trust = {"Medium", "High"},
                  !.rating = {"Negative", "Neutral", "Strong"}]

\* MaxReviews strong reviews of one package, some without a proof digest
Gapped ==
    [Plain EXCEPT !.len = {MaxReviews}, !.version = OldAndNew,
                  !.thoroughness = {"Low", "High"}, !.digest = BOOLEAN]

\* MaxReviews reviews spread over the packages, some without a review body
Grouped ==
    [Plain EXCEPT !.len = {MaxReviews}, !.pkg = Packages, !.version = OldAndNew,
                  !.has_review = BOOLEAN]

Families == {Endorsements, Violations, Pairs, Dated, Chains, Gapped, Grouped}

\* a review of a family with several reviews departs from a strong review of a
\* release, made from scratch, in at most one of rating, diff_base and prerelease
Oddities(s) ==
    (IF s.rating # "Strong" THEN 1 ELSE 0) + (IF s.diff_base # None THEN 1 ELSE 0)
    + (IF s.version.pre THEN 1 ELSE 0)

Specimens(f) ==
    {s \in [pkg : f.pkg, version : f.version, trust : f.trust, url : f.url,
            has_review : f.has_review, rating : f.rating,
            thoroughness : f.thoroughness, understanding : f.understanding,
            diff_base : f.diff_base, issues : f.issues, advisories : f.advisories,
            unmaintained : f.unmaintained, date : f.date, digest : f.digest] :
        f.len = {1} \/ Oddities(s) <= 1}

\* the k-th review of the store is made by reviewer k
ReviewOf(s, k) ==
    [pkg |-> s.pkg, version |-> s.version, from |-> k, has_review |-> s.has_review,
     rating |-> s.rating, thoroughness |-> s.thoroughness,
     understanding |-> s.understanding, diff_base |-> s.diff_base,
     issues |-> s.issues, advisories |-> s.advisories,
     unmaintained |-> s.unmaintained, date |-> s.date, digest |-> s.digest]

---------------------------------------------------------------------------
(* The state machine *)

\* lines 44-58 and 235: the state convert_to_document starts in
Init ==
    \E f \in Families : \E n \in f.len : \E snap \in [1..n -> Specimens(f)] :
        /\ db = [k \in 1..n |-> ReviewOf(snap[k], k)]
        /\ trusts = [k \in 1..n |-> snap[k].trust]
        /\ urls = [k \in 1..n |-> snap[k].url]
        /\ min_trust_level \in f.min
        /\ pc = "collect"
        /\ i = 1
        /\ all = << >>
        /\ pending = {}
        /\ cur = 1
        /\ j = 1
        /\ last_review = None
        /\ audits = << >>
        /\ visited = << >>
        /\ fate = [k \in 1..n |-> "stored"]

\* or_insert_with(Vec::new).push(x) on a map
Push(map, key, x) ==
    IF key \in DOMAIN map THEN [map EXCEPT ![key] = Append(@, x)]
    ELSE map @@ (key :> <<x>>)

\* lines 237-247: one iteration of the first loop
Collect ==
    /\ pc = "collect"
    /\ i <= Len(db)
    /\ LET r == db[i]
           trust == trusts[r.from]
           outcome == IF ~r.has_review THEN "no_review"
                      ELSE IF ~TrustGate(trust, min_trust_level) THEN "below_min_trust"
                      ELSE "grouped"
           grown == IF outcome = "grouped"
                    THEN Push(all, r.pkg, [trust |-> trust,
                                           q |-> review_quality_score(r), r |-> i])
                    ELSE all
       IN  /\ all' = grown
           /\ fate' = [fate EXCEPT ![i] = outcome]
           /\ pending' = IF i = Len(db) THEN DOMAIN grown ELSE pending
    /\ i' = i + 1
    /\ pc' = IF i = Len(db) THEN "groups" ELSE "collect"
    /\ UNCHANGED <<db, trusts, urls, min_trust_level, cur, j, last_review, audits,
                   visited>>

NextGroup_MarkerKept ==
    /\ pc = "groups"
    /\ \E p \in pending :
        /\ all' = [all EXCEPT ![p] = SortBy(@)]
        /\ cur' = p
        /\ pending' = pending \ {p}
        /\ visited' = Append(visited, p)
    /\ j' = 1
    /\ pc' = "fold"
    /\ UNCHANGED <<db, trusts, urls, min_trust_level, i, audits, fate, last_review>>

\* lines 250-258: all.values_mut() yields a group, in no order the code chooses;
\* the group is sorted in place and the marker starts empty
NextGroup ==
    /\ pc = "groups"
    /\ \E p \in pending :
        /\ all' = [all EXCEPT ![p] = SortBy(@)]
        /\ cur' = p
        /\ pending' = pending \ {p}
        /\ visited' = Append(visited, p)
    /\ j' = 1
    /\ last_review' = None
    /\ pc' = "fold"
    /\ UNCHANGED <<db, trusts, urls, min_trust_level, i, audits, fate>>

\* lines 259-401: one iteration of the inner loop
Visit ==
    /\ pc = "fold"
    /\ j <= Len(all[cur])
    /\ LET item == all[cur][j]
           step == ReviewStep(last_review, item)
       IN  /\ audits' = IF step.entry # None
                        THEN Push(audits, db[item.r].pkg, step.entry[1])
                        ELSE audits
           /\ last_review' = step.last
           /\ fate' = [fate EXCEPT ![item.r] = step.fate]
    /\ j' = j + 1
    /\ pc' = IF j = Len(all[cur]) THEN "groups" ELSE "fold"
    /\ UNCHANGED <<db, trusts, urls, min_trust_level, i, all, pending, cur, visited>>

\* lines 404-407: every group was folded; the document is returned
Finish ==
    /\ pc = "groups"
    /\ pending = {}
    /\ pc' = "done"
    /\ UNCHANGED <<db, trusts, urls, min_trust_level, i, all, pending, cur, j,
                   last_review, audits, visited, fate>>

Next == Collect \/ NextGroup \/ Visit \/ Finish

Spec == Init /\ [][Next]_vars

---------------------------------------------------------------------------
(* What the claims speak of *)

Entries(p) == IF p \in DOMAIN audits THEN audits[p] ELSE << >>
EntryReview(e) == e.aggregated_from[2].review
TrustOf(k) == trusts[db[k].from]
HasEntry(k) ==
    \E n \in 1..Len(Entries(db[k].pkg)) : EntryReview(Entries(db[k].pkg)[n]) = k
IsVisited(k) == fate[k] \notin {"stored", "grouped"}

\* the tables of the specification, written out
ScoreTable == [l \in Level |-> CASE l = "None" -> 0 [] l = "Low" -> 1
                                 [] l = "Medium" -> 3 [] l = "High" -> 7]
Quality(k) == ScoreTable[db[k].thoroughness] + ScoreTable[db[k].understanding]
TrustTerm(t) == CASE t = "Low" -> 7 [] t = "Medium" -> 3 [] t = "High" -> 1
RatingTerm(r) == CASE r = "Neutral" -> 3 [] r = "Positive" -> 1 [] r = "Strong" -> 0

IsEndorsement(k) == db[k].has_review /\ db[k].rating # "Negative"
IsViolation(k) == db[k].has_review /\ db[k].rating = "Negative"
MeetsMinTrust(k) == TrustRank[TrustOf(k)] >= TrustRank[min_trust_level]
PassesGates(k) ==
    /\ MeetsMinTrust(k)
    /\ TrustOf(k) \in {"Low", "Medium", "High"}
    /\ Quality(k) >= TrustTerm(TrustOf(k)) + RatingTerm(db[k].rating)

\* the place of review k in its package's group, once the group is sorted
PlaceOf(k) == CHOOSE n \in 1..Len(all[db[k].pkg]) : all[db[k].pkg][n].r = k
Precedes(a, b) == PlaceOf(a) < PlaceOf(b)

\* a review the marker is captured from
IsDominator(k) ==
    /\ RatingRank[db[k].rating] > RatingRank["Neutral"]
    /\ db[k].diff_base = None
    /\ ~db[k].version.pre

\* A is at least B in version, trust and quality
Covers(a, b) ==
    /\ VersionKey(db[a].version) >= VersionKey(db[b].version)
    /\ TrustRank[TrustOf(a)] >= TrustRank[TrustOf(b)]
    /\ Quality(a) >= Quality(b)

StrictlyCovers(a, b) ==
    /\ Covers(a, b)
    /\ \/ VersionKey(db[a].version) > VersionKey(db[b].version)
       \/ TrustRank[TrustOf(a)] > TrustRank[TrustOf(b)]

\* two endorsements of one package that pass the gates, A before B, A in the output
EndorsementPair(a, b) ==
    /\ a # b
    /\ db[a].pkg = db[b].pkg
    /\ IsEndorsement(a) /\ IsEndorsement(b)
    /\ PassesGates(a) /\ PassesGates(b)
    /\ HasEntry(a)
    /\ Precedes(a, b)

\* no review between A and B in the sort order has an entry
NoEntryBetween(a, b) ==
    \A c \in DOMAIN db :
        (db[c].pkg = db[a].pkg /\ c \in {all[db[a].pkg][n].r : n \in 1..Len(all[db[a].pkg])}
         /\ Precedes(a, c) /\ Precedes(c, b)) => ~HasEntry(c)

---------------------------------------------------------------------------
(* C1 *)

\* C1, as stated: for two endorsements A and B of one package that pass the trust
\* and threshold gates, with A >= B in version, trust and quality, A before B in
\* the sort order and A in the output, B is absent from the output.
C1_Original ==
    \A a, b \in DOMAIN db :
        (EndorsementPair(a, b) /\ Covers(a, b)) => ~HasEntry(b)

\* C1, amended: B is absent when moreover A is rated above Neutral, has no
\* diff_base and is no prerelease, A exceeds B in version or in trust, and no
\* review between A and B in the sort order has an entry.
C1_DominatedAbsent ==
    \A a, b \in DOMAIN db :
        (/\ EndorsementPair(a, b)
         /\ StrictlyCovers(a, b)
         /\ IsDominator(a)
         /\ NoEntryBetween(a, b)) => ~HasEntry(b)

C1_Witness ==
    \E a, b \in DOMAIN db :
        /\ EndorsementPair(a, b)
        /\ StrictlyCovers(a, b)
        /\ IsDominator(a)
        /\ NoEntryBetween(a, b)
        /\ db[b].digest
        /\ fate[b] = "dominated"

---------------------------------------------------------------------------
(* C2 *)

\* C2: no entry, violation or endorsement, is in the output for a review whose
\* reviewer's effective trust is below min_trust_level.
C2_NoEntryBelowMinTrust ==
    \A p \in DOMAIN audits : \A n \in 1..Len(audits[p]) :
        MeetsMinTrust(EntryReview(audits[p][n]))

\* a violation that every later step would export is stopped by the gate alone
C2_Witness ==
    /\ pc = "done"
    /\ \E k \in DOMAIN db :
        /\ IsViolation(k)
        /\ ~MeetsMinTrust(k)
        /\ db[k].digest
        /\ urls[db[k].from] = "none"
        /\ fate[k] = "below_min_trust"
        /\ ~HasEntry(k)

---------------------------------------------------------------------------
(* C3 *)

\* C3: a Negative review whose reviewer meets the minimum trust, whose digest
\* resolves and whose reviewer is not on the blocklist has an entry in its package's
\* list as soon as it was visited, whatever the marker and the other reviews.
C3_ViolationsRetained ==
    \A k \in DOMAIN db :
        (/\ IsViolation(k)
         /\ MeetsMinTrust(k)
         /\ db[k].digest
         /\ urls[db[k].from] # "MaulingM")
        => /\ fate[k] \in {"stored", "grouped", "emitted"}
           /\ IsVisited(k) => HasEntry(k)
           /\ pc = "done" => HasEntry(k)

\* a violation is exported right after an endorsement that covers it in version,
\* trust and quality and was captured as the marker
C3_Witness ==
    \E a, k \in DOMAIN db :
        /\ IsViolation(k) /\ IsEndorsement(a)
        /\ db[a].pkg = db[k].pkg
        /\ HasEntry(a) /\ HasEntry(k)
        /\ IsDominator(a)
        /\ StrictlyCovers(a, k)
        /\ PlaceOf(k) = PlaceOf(a) + 1

---------------------------------------------------------------------------
(* C4 *)

\* C4, as stated: the quality score of every review is score(thoroughness) +
\* score(understanding) and is a member of {0, 2, 4, 6, 8, 10, 14}.
C4_Original ==
    \A p \in DOMAIN all : \A n \in 1..Len(all[p]) :
        /\ all[p][n].q = Quality(all[p][n].r)
        /\ all[p][n].q \in {0, 2, 4, 6, 8, 10, 14}

\* C4, amended: the quality score is that sum and is a member of
\* {0, 1, 2, 3, 4, 6, 7, 8, 10, 14}: a level of None beside Low, Medium or High
\* gives the odd scores 1, 3 and 7.
C4_QualityRange ==
    \A p \in DOMAIN all : \A n \in 1..Len(all[p]) :
        /\ all[p][n].q = Quality(all[p][n].r)
        /\ all[p][n].q \in {0, 1, 2, 3, 4, 6, 7, 8, 10, 14}

C4_Witness ==
    \E p \in DOMAIN all : \E n \in 1..Len(all[p]) :
        /\ db[all[p][n].r].thoroughness = "None"
        /\ db[all[p][n].r].understanding = "Low"
        /\ all[p][n].q = 1

---------------------------------------------------------------------------
(* C5 *)

\* the criteria the specification gives an endorsement by review k
RunQuality(r) == CASE r = "Neutral" -> 6 [] r = "Positive" -> 4 [] r = "Strong" -> 2
DeployThoroughness(r) ==
    CASE r = "Neutral" -> {"High"} [] r = "Positive" -> {"Medium", "High"}
      [] r = "Strong" -> {"Low", "Medium", "High"}
SpecSafeToRun(k) ==
    TrustOf(k) \in {"Medium", "High"} /\ Quality(k) >= RunQuality(db[k].rating)
SpecSafeToDeploy(k) ==
    /\ SpecSafeToRun(k)
    /\ db[k].understanding \in {"Medium", "High"}
    /\ db[k].thoroughness \in DeployThoroughness(db[k].rating)
SpecCriteria(k) ==
    << CASE db[k].rating = "Neutral" -> "neutral" [] db[k].rating = "Positive" -> "positive"
         [] db[k].rating = "Strong" -> "strong",
       IF Quality(k) >= 14 THEN "level-high" ELSE IF Quality(k) >= 6 THEN "level-medium"
       ELSE IF Quality(k) >= 2 THEN "level-low" ELSE "level-none",
       CASE TrustOf(k) = "Low" -> "trust-low" [] TrustOf(k) = "Medium" -> "trust-medium"
         [] TrustOf(k) = "High" -> "trust-high" >>
    \o (IF SpecSafeToDeploy(k) THEN <<"safe-to-deploy">> ELSE << >>)
    \o (IF SpecSafeToRun(k) THEN <<"safe-to-run">> ELSE << >>)
    \o (IF db[k].unmaintained THEN <<"unmaintained">> ELSE << >>)

\* C5: the criteria of every endorsement entry are [rating tag, level tag, trust
\* tag], then "safe-to-deploy", "safe-to-run" and "unmaintained" where they apply,
\* in this order, and no tag occurs twice.
C5_EndorsementCriteria ==
    \A p \in DOMAIN audits : \A n \in 1..Len(audits[p]) :
        LET e == audits[p][n] IN
        e.violation = None =>
            /\ e.criteria = SpecCriteria(EntryReview(e))
            /\ \A x, y \in 1..Len(e.criteria) : e.criteria[x] = e.criteria[y] => x = y

\* the example of the specification
C5_Witness ==
    \E p \in DOMAIN audits : \E n \in 1..Len(audits[p]) :
        LET k == EntryReview(audits[p][n]) IN
        /\ TrustOf(k) = "Medium" /\ db[k].rating = "Positive"
        /\ db[k].thoroughness = "Medium" /\ db[k].understanding = "High"
        /\ ~db[k].unmaintained
        /\ audits[p][n].criteria =
             <<"positive", "level-medium", "trust-medium", "safe-to-deploy", "safe-to-run">>

---------------------------------------------------------------------------
(* C6 *)

Severities(k) ==
    {db[k].issues[n] : n \in 1..Len(db[k].issues)}
    \cup {db[k].advisories[n] : n \in 1..Len(db[k].advisories)}
SpecSeverity(k) ==
    IF "High" \in Severities(k) THEN "High"
    ELSE IF "Medium" \in Severities(k) THEN "Medium"
    ELSE IF "Low" \in Severities(k) THEN "Low"
    ELSE IF "None" \in Severities(k) THEN "None"
    ELSE "Medium"

---------------------------------------------------------------------------
(* C7 *)

\* the items the first loop groups under package p, in the store's order
RECURSIVE GroupFrom(_, _)
GroupFrom(p, k) ==
    IF k > Len(db) THEN << >>
    ELSE (IF /\ db[k].pkg = p
             /\ db[k].has_review
             /\ TrustGate(trusts[db[k].from], min_trust_level)
          THEN <<[trust |-> trusts[db[k].from], q |-> review_quality_score(db[k]),
                  r |-> k]>>
          ELSE << >>) \o GroupFrom(p, k + 1)

\* the entries of a sorted group, from item k on, the marker being last
RECURSIVE FoldFrom(_, _, _)
FoldFrom(items, k, last) ==
    IF k > Len(items) THEN << >>
    ELSE LET step == ReviewStep(last, items[k])
         IN  step.entry \o FoldFrom(items, k + 1, step.last)

\* the entry list of package p as a function of the reviews of p alone
EntriesOfPackage(p) == FoldFrom(SortBy(GroupFrom(p, 1)), 1, None)

\* C7: the document is a function of the snapshot: whatever order the groups are
\* yielded in, the list of each package is the fold, from an empty marker, over
\* that package's own reviews, and a package has a key exactly when its list is
\* not empty.
C7_Deterministic ==
    pc = "done" =>
        /\ \A p \in Packages : Entries(p) = EntriesOfPackage(p)
        /\ DOMAIN audits = {p \in Packages : EntriesOfPackage(p) # << >>}

\* two groups, the second package yielded first, where the marker left by the
\* first group folded covers the first review of the other group
C7_Witness ==
    /\ pc = "done"
    /\ Len(visited) = 2
    /\ visited[1] > visited[2]
    /\ \E a, b \in DOMAIN db :
        /\ db[a].pkg = visited[1] /\ db[b].pkg = visited[2]
        /\ HasEntry(a) /\ HasEntry(b)
        /\ PlaceOf(a) = Len(all[db[a].pkg]) /\ PlaceOf(b) = 1
        /\ IsDominator(a)
        /\ StrictlyCovers(a, b)

---------------------------------------------------------------------------
(* C8 *)

\* the review the inner loop is at
AtReview == all[cur][j].r

\* C8, as stated: processing a review that does not qualify as a dominator (a
\* violation, or an endorsement that is Neutral, incremental or a prerelease)
\* leaves the marker as it was.
C8_Original ==
    [][(pc = "fold" /\ ~IsDominator(AtReview)) => last_review' = last_review]_vars

\* C8, amended: a review that is skipped leaves the marker as it was; a review
\* that gets an entry overwrites it: with its own (quality, trust, version) when
\* it qualifies as a dominator, and with None when it does not.
C8_MarkerFollowsEntry ==
    [][pc = "fold" =>
        LET k == AtReview IN
        IF audits' = audits THEN last_review' = last_review
        ELSE IF IsDominator(k)
             THEN last_review' = <<[q |-> Quality(k), trust |-> TrustOf(k),
                                    version |-> db[k].version]>>
             ELSE last_review' = << >>]_vars

\* a violation has just got its entry, right after a dominator got its own, and
\* the marker is empty
C8_Witness ==
    /\ pc = "fold"
    /\ j > 2
    /\ last_review = << >>
    /\ IsViolation(all[cur][j - 1].r) /\ HasEntry(all[cur][j - 1].r)
    /\ IsEndorsement(all[cur][j - 2].r) /\ HasEntry(all[cur][j - 2].r)
    /\ IsDominator(all[cur][j - 2].r)

---------------------------------------------------------------------------
(* C9 *)

\* C9: no endorsement entry is in the output for a review whose quality is below
\* trust-term + rating-term (7/3/1 for trust Low/Medium/High, 3/1/0 for Neutral/
\* Positive/Strong), nor for a reviewer of trust Distrust or None, whatever
\* min_trust_level; the trust tag is never derived from Distrust or None.
C9_EndorsementGates ==
    \A p \in DOMAIN audits : \A n \in 1..Len(audits[p]) :
        LET e == audits[p][n]
            k == EntryReview(e)
        IN  db[k].rating # "Negative" =>
            /\ TrustOf(k) \notin {"Distrust", "None"}
            /\ Quality(k) >= TrustTerm(TrustOf(k)) + RatingTerm(db[k].rating)
            /\ \A x \in 1..Len(e.criteria) : e.criteria[x] # "unreachable!"

\* min_trust_level admits a reviewer of trust None, whose thorough strong review
\* is skipped all the same
C9_Witness ==
    /\ min_trust_level = "Distrust"
    /\ \E k \in DOMAIN db :
        /\ TrustOf(k) = "None"
        /\ db[k].rating = "Strong" /\ Quality(k) = 14 /\ db[k].digest
        /\ fate[k] = "inadmissible"
        /\ ~HasEntry(k)

---------------------------------------------------------------------------
(* C10 *)

\* review a comes after review b under the key (version, trust, quality, date),
\* each descending
ComesAfter(a, b) ==
    LET ka == <<VersionKey(db[a].version), TrustRank[TrustOf(a)], Quality(a), db[a].date>>
        kb == <<VersionKey(db[b].version), TrustRank[TrustOf(b)], Quality(b), db[b].date>>
    IN  \E x \in 1..4 : ka[x] < kb[x] /\ \A y \in 1..(x - 1) : ka[y] = kb[y]

\* C10: in every package's list the entries are in the composite order of their
\* reviews: an entry's review never comes after the review of a later entry, and
\* the entries follow the order of the sorted group.
C10_OutputOrdered ==
    \A p \in DOMAIN audits : \A n, m \in 1..Len(audits[p]) :
        n < m =>
            /\ ~ComesAfter(EntryReview(audits[p][n]), EntryReview(audits[p][m]))
            /\ Precedes(EntryReview(audits[p][n]), EntryReview(audits[p][m]))

\* two entries whose reviews differ in the date alone, the later one stored first
\* in the list though the store enumerates it last
C10_Witness ==
    \E p \in DOMAIN audits :
        /\ Len(audits[p]) = 2
        /\ LET a == EntryReview(audits[p][1])
               b == EntryReview(audits[p][2])
           IN  /\ a > b
               /\ db[a].version = db[b].version
               /\ TrustOf(a) = TrustOf(b)
               /\ Quality(a) = Quality(b)
               /\ db[a].date > db[b].date

---------------------------------------------------------------------------
(* C11 *)

\* the orders the store can enumerate n reviews in
Orders == [n \in 0..MaxReviews |->
             {f \in [1..n -> 1..n] : \A x, y \in 1..n : f[x] = f[y] => x = y}]

\* the items the first loop groups under package p when the store enumerates the
\* same reviews in another order: the enumeration order reaches the group only
\* as the order of its items (the push of line 246), so the orders of the store
\* are the orders of the group
GroupInOrder(p, order) ==
    LET group == GroupFrom(p, 1)
    IN  [k \in 1..Len(group) |-> group[order[k]]]

\* the order in which the fold then traverses the group
TraversalInOrder(p, order) == SortBy(GroupInOrder(p, order))

\* two reviews agree in the four keys of the sort
SameKeys(a, b) ==
    /\ db[a].version = db[b].version
    /\ TrustOf(a) = TrustOf(b)
    /\ Quality(a) = Quality(b)
    /\ db[a].date = db[b].date

IsGrouped(k) == db[k].has_review /\ MeetsMinTrust(k)

\* no two grouped reviews of one package agree in the four keys
NoTies ==
    \A a, b \in DOMAIN db :
        (a # b /\ db[a].pkg = db[b].pkg /\ IsGrouped(a) /\ IsGrouped(b)) => ~SameKeys(a, b)

\* C11, as stated: two distinct reviews of one package never compare equal under
\* the four keys, and the traversal order of the fold, and with it the entry list
\* (the fold of the traversal from an empty marker), is the same for every order
\* in which the store enumerates the reviews.
C11_Original ==
    pc = "done" =>
        /\ \A p \in DOMAIN all : \A n, m \in 1..Len(all[p]) :
              n # m => SortCmp(all[p][n], all[p][m]) # 0
        /\ \A p \in DOMAIN all :
              /\ \A order \in Orders[Len(all[p])] : TraversalInOrder(p, order) = all[p]
              /\ Entries(p) = FoldFrom(all[p], 1, None)

\* C11, amended: two distinct reviews of one package compare equal exactly when
\* they agree in version, trust, quality and date, and the stable sort then keeps
\* them in the store's order; when no two grouped reviews of a package agree in
\* the four keys, the traversal order of the fold, and with it the entry list
\* (the fold of the traversal from an empty marker), is the same for every order
\* in which the store enumerates the reviews.
C11_OrderIndependentWithoutTies ==
    pc = "done" =>
        /\ \A p \in DOMAIN all : \A n, m \in 1..Len(all[p]) :
              /\ (SortCmp(all[p][n], all[p][m]) = 0) = SameKeys(all[p][n].r, all[p][m].r)
              /\ (n < m /\ SameKeys(all[p][n].r, all[p][m].r)) => all[p][n].r < all[p][m].r
        /\ NoTies =>
              \A p \in DOMAIN all :
                  /\ \A order \in Orders[Len(all[p])] : TraversalInOrder(p, order) = all[p]
                  /\ Entries(p) = FoldFrom(all[p], 1, None)

\* three reviews without ties, enumerated in the reverse of the sort order, the
\* last of them dropped as dominated
C11_Witness ==
    /\ pc = "done"
    /\ NoTies
    /\ Len(db) = 3
    /\ \E p \in DOMAIN all :
        /\ Len(all[p]) = 3
        /\ all[p][1].r = 3 /\ all[p][2].r = 2 /\ all[p][3].r = 1
        /\ HasEntry(3)
        /\ fate[1] = "dominated"

---------------------------------------------------------------------------
(* C12 *)

IsSet(field) == field # << >>

---------------------------------------------------------------------------
(* C13 *)

\* the marker a review leaves when it is captured
MarkerOf(k) == <<[q |-> Quality(k), trust |-> TrustOf(k), version |-> db[k].version]>>

\* the review of the last entry of package p's list
LastEntryReview(p) == EntryReview(Entries(p)[Len(Entries(p))])

\* C13: a review B dropped by the dominance check has, before it in its
\* package's list, an entry of an endorsement A that is rated above Neutral, has
\* no diff_base and is no prerelease, with A >= B in quality, version and trust
\* and version or trust strictly greater; and the marker is never taken from a
\* review that was skipped: while a group is folded the marker is empty or is
\* the (quality, trust, version) of the review of the list's last entry.
C13_DropsWitnessed ==
    /\ \A b \in DOMAIN db :
          fate[b] = "dominated" =>
              \E a \in DOMAIN db :
                  /\ db[a].pkg = db[b].pkg
                  /\ HasEntry(a)
                  /\ IsEndorsement(a)
                  /\ IsDominator(a)
                  /\ StrictlyCovers(a, b)
                  /\ Precedes(a, b)
    /\ (pc = "fold" /\ last_review # << >>) =>
          /\ Entries(cur) # << >>
          /\ IsDominator(LastEntryReview(cur))
          /\ last_review = MarkerOf(LastEntryReview(cur))

\* B is dropped on account of A, which has an entry; between them a review that
\* covers B as well is skipped for want of a digest and leaves the marker alone
C13_Witness ==
    \E a, c, b \in DOMAIN db :
        /\ fate[b] = "dominated"
        /\ fate[c] = "no_digest"
        /\ HasEntry(a)
        /\ Precedes(a, c) /\ Precedes(c, b)
        /\ IsDominator(c)
        /\ Covers(c, b)
        /\ Quality(c) > Quality(a)

====
